---- MODULE Spec2Model ----
(***************************************************************************)
(* A model of falkon/models/model_utils.py (class FalkonBase and           *)
(* to_c_contig) and of the kernel-product expectations of                  *)
(* falkon/tests/test_kernels.py.                                           *)
(*                                                                         *)
(* Python values are modelled as follows.  An Optional value is a sequence *)
(* of length 0 (None) or 1 (the value): None == <<>>, Some(x) == <<x>>.    *)
(* A tensor is a record [shape, dtype, order]; shape is the sequence of    *)
(* its dimensions, order is "C" or "F" (strictly F-contiguous).            *)
(* An exception is the name of its class, "" meaning no exception.         *)
(*                                                                         *)
(* The module holds six specifications  over one set of variables:         *)
(*   SpecKnm     the memory heuristic FalkonBase._can_store_knm            *)
(*   SpecFitIn   the input validation FalkonBase._check_fit_inputs         *)
(*   SpecKernel  the fused kernel products against the tests' expectations *)
(*   SpecCtor    the constructor FalkonBase.__init__ on all its arguments  *)
(*   SpecCback   _get_callback_fn on every presence of X, Y, Xts, Yts, and  *)
(*               the calls of the callback it returns                      *)
(*   Spec        the estimator's life: construction, fit (reset,           *)
(*               preparation, CG iterations with the validation callback,  *)
(*               completion) and predict                                   *)
(* Each specification leaves the variables of the others at rest.          *)
(***************************************************************************)
EXTENDS Integers, Sequences, FiniteSets, TLC

VARIABLES
    \* ---- SpecKnm
    knm_pc,      \* "call" before _can_store_knm runs, "done" after, "off"
    knm_in,      \* the options and arguments of the call
    knm_ret,     \* the returned Python value: <<TRUE>>, <<FALSE>> or None
    \* ---- SpecFitIn
    cfi_pc,      \* "call" before _check_fit_inputs runs, "done" after, "off"
    cfi_in,      \* the arguments X, Y, Xts, Yts and should_use_keops' answer
    cfi_out,     \* [exc, ret]: the exception raised or the tuple returned
    \* ---- SpecKernel
    k_pc,        \* "call" before a kernel product runs, "done" after, "off"
    k_in,        \* the kernel and the matrices A, B, v, w
    k_op,        \* the product computed: "mmv", "dv", "dw" or "dvw"
    k_out,       \* the matrix the fused product returned
    \* ---- Spec, SpecCtor, SpecCback
    pc,          \* "new": not constructed; "ctor_failed"; "idle": constructed,
                 \* no fit running; "get_callback": about to call
                 \* _get_callback_fn; "fitting": in the CG loop of fit;
                 \* "callback": the CG loop is calling the validation callback
    ctor,        \* the arguments of the constructor call
    self,        \* the estimator's fields
    fit,         \* the running fit's arguments and local variables
    exc,         \* the exception the last operation raised, "" if none
    predict_out  \* what the last operation did if it was predict:
                 \* [exc, called], called the arguments _predict was given

knmVars == <<knm_pc, knm_in, knm_ret>>
cfiVars == <<cfi_pc, cfi_in, cfi_out>>
kVars == <<k_pc, k_in, k_op, k_out>>
estVars == <<pc, ctor, self, fit, exc, predict_out>>
vars == <<knmVars, cfiVars, kVars, estVars>>

(***************************************************************************)
(* Python values                                                           *)
(***************************************************************************)
None == <<>>
Some(x) == <<x>>
IsNone(o) == Len(o) = 0

(***************************************************************************)
(* The memory heuristic                                                    *)
(***************************************************************************)
MaxN == 2            \* rows of X
MaxM == 2            \* rows of ny_points (centers)
MaxD == 3            \* columns of X
MaxThreshold == 2    \* options.store_kernel_d_threshold

DTypes == {"float32", "float64"}

\* falkon.utils.helpers.sizeof_dtype: bytes of one element.
sizeof_dtype(dtype) == IF dtype = "float64" THEN 8 ELSE 4

\* Budgets up to one byte more than the largest kernel matrix.
MaxRam == MaxN * MaxM * sizeof_dtype("float64") + 1

\* tensor.size(i), with Python's 0-based i.
size(tensor, i) == tensor.shape[i + 1]

\* _can_store_knm with the threshold comparison off by one (>= for >).
_can_store_knm_ge(options, X, ny_points, available_ram) ==
    IF options.never_store_kernel THEN Some(FALSE)
    ELSE LET dts == sizeof_dtype(X.dtype)
             store_threshold == options.store_kernel_d_threshold
         IN  IF size(X, 1) >= store_threshold
             THEN LET necessary_ram == size(X, 0) * size(ny_points, 0) * dts
                  IN  IF available_ram > necessary_ram THEN Some(TRUE)
                      ELSE IF options.debug THEN Some(FALSE)
                      ELSE None
             ELSE Some(FALSE)

\* FalkonBase._can_store_knm.  The `return False` of the not-enough-memory
\* case sits inside `elif self.options.debug:`, so without debug the function
\* falls off its end and returns None.
_can_store_knm(options, X, ny_points, available_ram) ==
    IF options.never_store_kernel THEN Some(FALSE)
    ELSE LET dts == sizeof_dtype(X.dtype)
             store_threshold == options.store_kernel_d_threshold
         IN  IF size(X, 1) > store_threshold
             THEN LET necessary_ram == size(X, 0) * size(ny_points, 0) * dts
                  IN  IF available_ram > necessary_ram THEN Some(TRUE)
                      ELSE IF options.debug THEN Some(FALSE)
                      ELSE None
             ELSE Some(FALSE)

KnmOptions ==
    [never_store_kernel : BOOLEAN,
     store_kernel_d_threshold : 0..MaxThreshold,
     debug : BOOLEAN]

KnmInputs ==
    [options : KnmOptions, N : 1..MaxN, M : 1..MaxM, D : 1..MaxD,
     dtype : DTypes, available_ram : 0..MaxRam]

KnmX(in) == [shape |-> <<in.N, in.D>>, dtype |-> in.dtype, order |-> "C"]
KnmNy(in) == [shape |-> <<in.M, in.D>>, dtype |-> in.dtype, order |-> "C"]
KnmNecessary(in) == in.N * in.M * sizeof_dtype(in.dtype)

KnmInit == knm_pc = "call" /\ knm_in \in KnmInputs /\ knm_ret = None
KnmOff == knm_pc = "off" /\ knm_in = None /\ knm_ret = None

\* One call of _can_store_knm on the drawn inputs.
CanStoreKnm ==
    /\ knm_pc = "call"
    /\ knm_ret' = _can_store_knm(knm_in.options, KnmX(knm_in), KnmNy(knm_in),
                                 knm_in.available_ram)
    /\ knm_pc' = "done"
    /\ UNCHANGED <<knm_in, cfiVars, kVars, estVars>>


\* C1: with never_store_kernel off, D above the threshold and a budget
\* >= N*M*sizeof(dtype), equality included, the heuristic returns True.
C1_CacheWhenFits ==
    (/\ knm_pc = "done"
     /\ ~knm_in.options.never_store_kernel
     /\ knm_in.D > knm_in.options.store_kernel_d_threshold
     /\ knm_in.available_ram >= KnmNecessary(knm_in))
    => knm_ret = Some(TRUE)

\* C2: when D <= threshold, or never_store_kernel is set, the heuristic
\* returns False whatever the budget.
C2_NeverCacheSmallD ==
    (/\ knm_pc = "done"
     /\ \/ knm_in.D <= knm_in.options.store_kernel_d_threshold
        \/ knm_in.options.never_store_kernel)
    => knm_ret = Some(FALSE)

\* C2's case: D equal to the threshold, storing allowed, and a budget above
\* the size of the kernel matrix.
C2_Witness ==
    /\ knm_pc = "done"
    /\ ~knm_in.options.never_store_kernel
    /\ knm_in.D = knm_in.options.store_kernel_d_threshold
    /\ knm_in.available_ram > KnmNecessary(knm_in)
    /\ knm_ret = Some(FALSE)

\* C3: the heuristic returns exactly True or False, False when D is above
\* the threshold and the budget below N*M*sizeof(dtype), and the same value
\* with the debug option flipped.
C3_BooleanDecision ==
    knm_pc = "done" =>
        /\ knm_ret \in {Some(TRUE), Some(FALSE)}
        /\ (/\ knm_in.D > knm_in.options.store_kernel_d_threshold
            /\ knm_in.available_ram < KnmNecessary(knm_in))
           => knm_ret = Some(FALSE)
        /\ knm_ret = _can_store_knm(
                        [knm_in.options EXCEPT !.debug = ~knm_in.options.debug],
                        KnmX(knm_in), KnmNy(knm_in), knm_in.available_ram)

(***************************************************************************)
(* Input validation of fit                                                 *)
(***************************************************************************)
MaxRows == 2         \* largest extent of one tensor dimension
MaxRank == 3         \* largest rank of Y

\* All shapes of rank 0..r with extents 1..MaxRows.
RECURSIVE Shapes(_)
Shapes(r) ==
    IF r = 0 THEN {<<>>}
    ELSE Shapes(r - 1) \cup
         {Append(s, e) : s \in {t \in Shapes(r - 1) : Len(t) = r - 1},
                         e \in 1..MaxRows}

\* Tensors of the given shapes; only a matrix can be strictly F-contiguous.
Tensors(shapes) ==
    {[shape |-> s, dtype |-> d, order |-> o] :
        s \in shapes, d \in DTypes, o \in {"C", "F"}}
    \ {t \in [shape : shapes, dtype : DTypes, order : {"F"}] :
            Len(t.shape) # 2}

dim(tensor) == Len(tensor.shape)

\* torch.unsqueeze(tensor, 1) of a 1-D tensor: a column matrix.
unsqueeze1(tensor) == [tensor EXCEPT !.shape = <<tensor.shape[1], 1>>]

\* falkon.utils.helpers.check_same_dtype on two tensors.
check_same_dtype(a, b) == a.dtype = b.dtype

\* falkon.utils.tensor_helpers.is_f_contig(tensor, strict=True).
is_f_contig(tensor) == tensor.order = "F"

\* to_c_contig on an Optional tensor: a strictly F-contiguous tensor is
\* copied into C order, with its shape and dtype; any other is returned as is.
to_c_contig(tensor) ==
    IF ~IsNone(tensor) /\ is_f_contig(tensor[1])
    THEN Some([tensor[1] EXCEPT !.order = "C"])
    ELSE tensor

Raise(e) == [exc |-> e, ret |-> None]
Return(v) == [exc |-> "", ret |-> Some(v)]

\* FalkonBase._check_fit_inputs.  X.shape[0] and Y.shape[0] are read first:
\* indexing the empty shape of a 0-D tensor raises IndexError.
_check_fit_inputs(X, Y, Xts, Yts, use_keops) ==
    IF dim(X) = 0 \/ dim(Y) = 0 THEN Raise("IndexError")
    ELSE IF X.shape[1] # Y.shape[1] THEN Raise("ValueError")
    ELSE LET Y1 == IF dim(Y) = 1 THEN unsqueeze1(Y) ELSE Y
         IN  IF dim(Y1) # 2 THEN Raise("ValueError")
             ELSE IF ~check_same_dtype(X, Y1) THEN Raise("TypeError")
             ELSE IF use_keops
                  THEN Return([X |-> to_c_contig(Some(X))[1],
                               Y |-> to_c_contig(Some(Y1))[1],
                               Xts |-> to_c_contig(Xts),
                               Yts |-> to_c_contig(Yts)])
                  ELSE Return([X |-> X, Y |-> Y1, Xts |-> Xts, Yts |-> Yts])

Matrices == {s \in Shapes(2) : Len(s) = 2}
OptTensors == {None} \cup {Some(t) : t \in Tensors({<<1, 1>>})}

CfiInputs ==
    [X : Tensors(Matrices), Y : Tensors(Shapes(MaxRank)),
     Xts : OptTensors, Yts : OptTensors, use_keops : BOOLEAN]

CfiInit == cfi_pc = "call" /\ cfi_in \in CfiInputs /\ cfi_out = None
CfiOff == cfi_pc = "off" /\ cfi_in = None /\ cfi_out = None

\* One call of _check_fit_inputs on the drawn inputs; use_keops is the
\* answer of should_use_keops(X, X, options).
CheckFitInputs ==
    /\ cfi_pc = "call"
    /\ cfi_out' = _check_fit_inputs(cfi_in.X, cfi_in.Y, cfi_in.Xts,
                                    cfi_in.Yts, cfi_in.use_keops)
    /\ cfi_pc' = "done"
    /\ UNCHANGED <<cfi_in, knmVars, kVars, estVars>>

\* The datasets the claim calls well-formed.
CfiWellFormed(in) ==
    /\ dim(in.Y) \in {1, 2}
    /\ in.X.shape[1] = in.Y.shape[1]
    /\ in.X.dtype = in.Y.dtype

\* C5: _check_fit_inputs returns exactly on the well-formed datasets, with Y
\* of rank 2 (a 1-D Y of length N as N x 1, a 2-D Y with its shape), the rows
\* of X and the dtype of X; on every other input, a Y of rank 0 or >= 3
\* included, it raises ValueError or TypeError.
C5_AcceptsExactlyWellFormed ==
    cfi_pc = "done" =>
        IF CfiWellFormed(cfi_in)
        THEN /\ cfi_out.exc = ""
             /\ LET r == cfi_out.ret[1]
                 IN  /\ dim(r.Y) = 2
                     /\ r.Y.shape = IF dim(cfi_in.Y) = 1
                                     THEN <<cfi_in.Y.shape[1], 1>>
                                     ELSE cfi_in.Y.shape
                     /\ r.X.shape[1] = r.Y.shape[1]
                     /\ r.X.dtype = r.Y.dtype
        ELSE cfi_out.exc \in {"ValueError", "TypeError"}

(***************************************************************************)
(* Kernel products                                                         *)
(* A matrix is a sequence of rows, each a sequence of integers.  The       *)
(* arithmetic is exact: the tests' tolerances play no part.                *)
(***************************************************************************)
KernN == 2           \* most rows of A and w
KernM == 2           \* most rows of B and v

\* Rows of A and B (d = 2) and rows of v and w (t = 2).
Points == {<<1, 0>>, <<1, 2>>}
RhsRows == {<<1, 0>>, <<-1, 2>>}

\* The kernels: (alpha * <a, b> + beta) ^ degree, the linear kernel with
\* degree 1 and the polynomial kernel with degree 2.
Kernels ==
    {[name |-> "linear", alpha |-> 1, beta |-> 2, degree |-> 1],
     [name |-> "polynomial", alpha |-> 2, beta |-> 3, degree |-> 2]}

RECURSIVE SumTo(_, _)
\* f[1] + ... + f[n]
SumTo(f, n) == IF n = 0 THEN 0 ELSE SumTo(f, n - 1) + f[n]

Dot(a, b) == SumTo([i \in 1..Len(a) |-> a[i] * b[i]], Len(a))

RECURSIVE Pow(_, _)
Pow(x, e) == IF e = 0 THEN 1 ELSE x * Pow(x, e - 1)

\* One kernel evaluation between two points.
KernelFn(kernel, a, b) == Pow(kernel.alpha * Dot(a, b) + kernel.beta, kernel.degree)

Rows(P) == Len(P)
Cols(P) == Len(P[1])

\* numpy's P @ Q
MatMul(P, Q) ==
    [i \in 1..Rows(P) |->
        [j \in 1..Cols(Q) |->
            SumTo([l \in 1..Rows(Q) |-> P[i][l] * Q[l][j]], Rows(Q))]]

\* numpy's P.T
Transpose(P) == [j \in 1..Cols(P) |-> [i \in 1..Rows(P) |-> P[i][j]]]

MatAdd(P, Q) == [i \in 1..Rows(P) |-> [j \in 1..Cols(P) |-> P[i][j] + Q[i][j]]]

Zeros(r, c) == [i \in 1..r |-> [j \in 1..c |-> 0]]

\* The naive double-loop kernel matrix of the tests (naive_*_kernel).
exp_k(kernel, A, B) ==
    [i \in 1..Rows(A) |-> [j \in 1..Rows(B) |-> KernelFn(kernel, A[i], B[j])]]

\* The tests' expected values.
exp_v(K, v) == MatMul(K, v)
exp_dv(K, v) == MatMul(Transpose(K), MatMul(K, v))
exp_dw(K, w) == MatMul(Transpose(K), w)
\* exp_dvw with w forgotten.
exp_dvw_no_w(K, v, w) == MatMul(Transpose(K), MatMul(K, v))
exp_dvw(K, v, w) == MatMul(Transpose(K), MatAdd(MatMul(K, v), w))

\* The fused product K(A,B) @ v: row i of the result is accumulated over
\* the points of B, one kernel evaluation at a time; K is never formed.
RECURSIVE MmvRow(_, _, _, _, _)
MmvRow(kernel, a, B, v, j) ==
    IF j = 0 THEN [c \in 1..Cols(v) |-> 0]
    ELSE LET acc == MmvRow(kernel, a, B, v, j - 1)
             kij == KernelFn(kernel, a, B[j])
         IN  [c \in 1..Cols(v) |-> acc[c] + kij * v[j][c]]

mmv(kernel, A, B, v) ==
    [i \in 1..Rows(A) |-> MmvRow(kernel, A[i], B, v, Rows(B))]

\* The fused product K^T @ (K @ v + w), v or w possibly None (taken as
\* zero): accumulated over the points of A, each contributing the outer
\* product of its kernel row with its row of K @ v + w.
RECURSIVE DmmvAcc(_, _, _, _, _, _, _)
DmmvAcc(kernel, A, B, v, w, t, i) ==
    IF i = 0 THEN Zeros(Rows(B), t)
    ELSE LET acc == DmmvAcc(kernel, A, B, v, w, t, i - 1)
             kv == IF IsNone(v) THEN [c \in 1..t |-> 0]
                   ELSE MmvRow(kernel, A[i], B, v[1], Rows(B))
             r == [c \in 1..t |-> kv[c] + IF IsNone(w) THEN 0 ELSE w[1][i][c]]
         IN  [j \in 1..Rows(B) |->
                [c \in 1..t |-> acc[j][c] + KernelFn(kernel, A[i], B[j]) * r[c]]]

dmmv(kernel, A, B, v, w) ==
    LET t == IF IsNone(v) THEN Cols(w[1]) ELSE Cols(v[1])
    IN  DmmvAcc(kernel, A, B, v, w, t, Rows(A))

KernInputs ==
    UNION {[kernel : Kernels, A : [1..n -> Points], B : [1..m -> Points],
            v : [1..m -> RhsRows], w : [1..n -> RhsRows]] :
           n \in 1..KernN, m \in 1..KernM}

KernInit == k_pc = "call" /\ k_in \in KernInputs /\ k_op = "" /\ k_out = None
KernOff == k_pc = "off" /\ k_in = None /\ k_op = "" /\ k_out = None

\* kernel.mmv(A, B, v)
Mmv ==
    /\ k_pc = "call"
    /\ k_out' = mmv(k_in.kernel, k_in.A, k_in.B, k_in.v)
    /\ k_op' = "mmv" /\ k_pc' = "done"
    /\ UNCHANGED <<k_in, knmVars, cfiVars, estVars>>

\* kernel.dmmv(A, B, v, None)
DmmvV ==
    /\ k_pc = "call"
    /\ k_out' = dmmv(k_in.kernel, k_in.A, k_in.B, Some(k_in.v), None)
    /\ k_op' = "dv" /\ k_pc' = "done"
    /\ UNCHANGED <<k_in, knmVars, cfiVars, estVars>>

\* kernel.dmmv(A, B, None, w)
DmmvW ==
    /\ k_pc = "call"
    /\ k_out' = dmmv(k_in.kernel, k_in.A, k_in.B, None, Some(k_in.w))
    /\ k_op' = "dw" /\ k_pc' = "done"
    /\ UNCHANGED <<k_in, knmVars, cfiVars, estVars>>

\* kernel.dmmv(A, B, v, w)
DmmvVW ==
    /\ k_pc = "call"
    /\ k_out' = dmmv(k_in.kernel, k_in.A, k_in.B, Some(k_in.v), Some(k_in.w))
    /\ k_op' = "dvw" /\ k_pc' = "done"
    /\ UNCHANGED <<k_in, knmVars, cfiVars, estVars>>

\* The value the tests expect of the product computed.
Expected ==
    LET K == exp_k(k_in.kernel, k_in.A, k_in.B)
    IN  CASE k_op = "mmv" -> exp_v(K, k_in.v)
          [] k_op = "dv" -> exp_dv(K, k_in.v)
          [] k_op = "dw" -> exp_dw(K, k_in.w)
          [] k_op = "dvw" -> exp_dvw(K, k_in.v, k_in.w)

MaxCenters == 2      \* largest M
MaxErrorEvery == 2   \* largest error_every
RngMod == 8          \* number of states of the random generator

Seeds == {0, 1}

\* A Python str is the sequence of its characters.
Str_uniform == <<"u", "n", "i", "f", "o", "r", "m">>
Str_Uniform == <<"U", "n", "i", "f", "o", "r", "m">>
Str_UNIFORM == <<"U", "N", "I", "F", "O", "R", "M">>
Str_kmeans == <<"k", "m", "e", "a", "n", "s">>
Str_uniform_sp == <<"u", "n", "i", "f", "o", "r", "m", " ">>
Str_empty == <<>>

\* str.lower() on one character.
LowerChar(c) ==
    CASE c = "U" -> "u" [] c = "N" -> "n" [] c = "I" -> "i" [] c = "F" -> "f"
      [] c = "O" -> "o" [] c = "R" -> "r" [] c = "M" -> "m" [] OTHER -> c

\* str.lower()
lower(str) == [i \in 1..Len(str) |-> LowerChar(str[i])]

\* A center selector: falkon.center_selection.UniformSelector(random_gen,
\* num_centers), which draws from the random generator it was given (the
\* estimator's random_state_, shared by reference), or a selector of the
\* caller's own.
UniformSelector(num_centers) ==
    [type |-> "UniformSelector", num_centers |-> num_centers]
CustomSelector == [type |-> "CustomSelector", num_centers |-> 1]

\* The center_selection argument: a str or a CenterSelector object.
StrArg(str) == [is_str |-> TRUE, str |-> str, obj |-> None]
ObjArg(obj) == [is_str |-> FALSE, str |-> <<>>, obj |-> Some(obj)]

\* falkon.utils.check_random_generator(seed): a generator seeded with the
\* given seed, or from the system's entropy when the seed is None.
check_random_generator(seed) ==
    IF IsNone(seed) THEN 0..(RngMod - 1) ELSE {seed[1] % RngMod}

\* _init_center_selection comparing the string as given (no lower()).
_init_center_selection_case(M, center_selection) ==
    IF center_selection.is_str
    THEN IF center_selection.str = Str_uniform
         THEN IF IsNone(M) THEN Raise("ValueError")
              ELSE Return(UniformSelector(M[1]))
         ELSE Raise("ValueError")
    ELSE Return(center_selection.obj[1])

\* FalkonBase._init_center_selection, reading self.M.
_init_center_selection(M, center_selection) ==
    IF center_selection.is_str
    THEN IF lower(center_selection.str) = Str_uniform
         THEN IF IsNone(M) THEN Raise("ValueError")
              ELSE Return(UniformSelector(M[1]))
         ELSE Raise("ValueError")
    ELSE Return(center_selection.obj[1])

OptM == {None} \cup {Some(m) : m \in 1..MaxCenters}
OptSeed == {None} \cup {Some(sd) : sd \in Seeds}
OptErrorFn == {None, Some("error_fn")}
OptErrorEvery == {None} \cup {Some(e) : e \in 1..MaxErrorEvery}

CtorArgs ==
    [M : OptM,
     center_selection :
        {StrArg(str) : str \in {Str_uniform, Str_Uniform, Str_UNIFORM,
                                Str_kmeans, Str_uniform_sp, Str_empty}}
        \cup {ObjArg(CustomSelector)},
     seed : OptSeed, error_fn : OptErrorFn, error_every : OptErrorEvery]

\* The constructor calls of the estimator's life: one spelling of each
\* kind of center_selection.
LifeCtorArgs ==
    {a \in CtorArgs :
        a.center_selection \in {StrArg(Str_Uniform), StrArg(Str_kmeans),
                                ObjArg(CustomSelector)}}

\* No estimator yet.
NoSelf ==
    [M |-> None, seed |-> None, random_state_ |-> None, error_fn |-> None,
     error_every |-> None, alpha_ |-> None, ny_points_ |-> None,
     fit_times_ |-> None, val_errors_ |-> None, center_selection |-> None]

NoFit ==
    [X |-> None, Y |-> None, Xts |-> None, Yts |-> None, ny_points |-> <<>>, precond |-> <<>>,
     beta |-> 0, it |-> 0, train_time |-> 0, cback |-> None]

NoPredict == [exc |-> "", called |-> None]

EstRest == self = NoSelf /\ fit = NoFit /\ exc = "" /\ predict_out = NoPredict
EstOff == pc = "off" /\ ctor = None /\ EstRest

\* FalkonBase.__init__: the fields are assigned in order, the generator is
\* created from the seed, then _init_center_selection runs last and may raise.
Construct ==
    /\ pc = "new"
    /\ \E gen \in check_random_generator(ctor.seed) :
        LET fields == [NoSelf EXCEPT !.M = ctor.M, !.seed = ctor.seed,
                                     !.random_state_ = Some(gen),
                                     !.error_fn = ctor.error_fn,
                                     !.error_every = ctor.error_every]
            cs == _init_center_selection(fields.M, ctor.center_selection)
        IN  /\ self' = [fields EXCEPT !.center_selection = cs.ret]
            /\ exc' = cs.exc
            /\ pc' = IF cs.exc = "" THEN "idle" ELSE "ctor_failed"
    /\ predict_out' = NoPredict
    /\ UNCHANGED <<ctor, fit, knmVars, cfiVars, kVars>>

\* C6: a string strategy fails with ValueError when it is 'uniform' in any
\* letter case with M None, and when it is any other string; 'uniform' with
\* M set yields a uniform selector with num_centers = M; a CenterSelector
\* object is used unchanged whether or not M is set.
C6_CenterSelectionConfig ==
    pc \in {"idle", "ctor_failed"} =>
        LET cs == ctor.center_selection
        IN  IF cs.is_str
            THEN IF lower(cs.str) = Str_uniform /\ ~IsNone(ctor.M)
                 THEN /\ pc = "idle" /\ exc = ""
                      /\ self.center_selection
                           = Some(UniformSelector(ctor.M[1]))
                 ELSE /\ pc = "ctor_failed" /\ exc = "ValueError"
            ELSE /\ pc = "idle" /\ exc = ""
                 /\ self.center_selection = cs.obj

\* C6's case: 'uniform' in another letter case with M set gave a uniform
\* selector.
C6_Witness ==
    /\ pc = "idle"
    /\ ctor.center_selection = StrArg(Str_UNIFORM)
    /\ ctor.M = Some(2)
    /\ self.center_selection = Some(UniformSelector(2))

(***************************************************************************)
(* The estimator: fit, the validation callback, predict                    *)
(* fit is abstract in FalkonBase.  Its steps here are FalkonBase's own     *)
(* methods (_reset_state, _get_callback_fn and its val_cback, predict,     *)
(* _check_predict_inputs) in the order a fit runs them; center selection,  *)
(* the preconditioner, the CG loop and the final assignment of alpha_ and  *)
(* ny_points_ follow the design document.                                  *)
(***************************************************************************)
NRows == 3           \* rows of the training set X
MaxIter == 3         \* CG iteration cap

PrepTimes == {1, 2}   \* seconds spent preparing (preconditioner)
StepTimes == {1, 2}  \* seconds one CG iteration adds to train_time

\* The random generator: one draw returns state % n and advances the state.
RngNext(state) == (5 * state + 3) % RngMod

\* The sequence s without its i-th element.
Remove(s, i) == [j \in 1..(Len(s) - 1) |-> IF j < i THEN s[j] ELSE s[j + 1]]

\* M distinct row indices of [0, N) drawn without replacement, in selection
\* order, with the generator's state after the draws.
RECURSIVE Draw(_, _, _, _)
Draw(state, remaining, chosen, m) ==
    IF m = 0 THEN [centers |-> chosen, state |-> state]
    ELSE LET i == (state % Len(remaining)) + 1
         IN  Draw(RngNext(state), Remove(remaining, i),
                  Append(chosen, remaining[i]), m - 1)

\* center_selection.select(X, Y) on the N rows of X: the uniform selector
\* draws from the estimator's generator, the caller's selector takes the
\* first rows.
select(selector, state, N) ==
    IF selector.type = "UniformSelector"
    THEN Draw(state, [i \in 1..N |-> i - 1], <<>>, selector.num_centers)
    ELSE [centers |-> [i \in 1..selector.num_centers |-> i - 1],
          state |-> state]

\* The preconditioner built from the centers.
Preconditioner(ny_points) == ny_points

\* _params_to_original_space(beta, precond): pure.
_params_to_original_space(beta, precond) == [beta |-> beta, precond |-> precond]

\* _predict(X, ny_points, alpha): pure; X is named, not held.
_predict(X, ny_points, alpha) == [X |-> X, ny_points |-> ny_points, alpha |-> alpha]

\* error_fn(targets, pred): the caller's error function.
error_fn(targets, pred) == [targets |-> targets, pred |-> pred]

\* FalkonBase._reset_state
_reset_state(obj) ==
    [obj EXCEPT !.alpha_ = None, !.ny_points_ = None,
                !.fit_times_ = Some(<<>>), !.val_errors_ = Some(<<>>)]

\* FalkonBase._get_callback_fn: the closure val_cback with the variables it
\* captures, or the AssertionError of a failed precondition.
_get_callback_fn(obj, X, Y, Xts, Yts, ny_points, precond) ==
    IF IsNone(X) /\ IsNone(Xts) THEN Raise("AssertionError")
    ELSE IF IsNone(Y) /\ IsNone(Yts) THEN Raise("AssertionError")
    ELSE IF IsNone(obj.error_fn) THEN Raise("AssertionError")
    ELSE Return([X |-> X, Y |-> Y, Xts |-> Xts, Yts |-> Yts,
                 ny_points |-> ny_points, precond |-> precond])

\* What a call of val_cback leaves: the exception it raised, the estimator,
\* and the objects it was handed (the iterate, and the captured centers and
\* preconditioner).
CbackResult(e, obj, cb, beta) ==
    [exc |-> e, self |-> obj, beta |-> beta,
     ny_points |-> cb.ny_points, precond |-> cb.precond]

\* val_cback keeping the mapped iterate in self.alpha_ when it reports.
val_cback_keeps_alpha(obj, cb, it, beta, train_time) ==
    IF IsNone(obj.error_fn) \/ IsNone(obj.fit_times_) \/ IsNone(obj.val_errors_)
    THEN CbackResult("AssertionError", obj, cb, beta)
    ELSE IF Len(obj.fit_times_[1]) = 0
    THEN CbackResult("IndexError", obj, cb, beta)
    ELSE
    LET appended == [obj EXCEPT !.fit_times_ =
                        Some(Append(@[1], @[1][1] + train_time))]
    IN  IF IsNone(obj.error_every)
        THEN CbackResult("TypeError", appended, cb, beta)
        ELSE IF obj.error_every[1] = 0
        THEN CbackResult("ZeroDivisionError", appended, cb, beta)
        ELSE IF it % obj.error_every[1] # 0
        THEN CbackResult("", appended, cb, beta)
        ELSE
        LET err_str == IF IsNone(cb.Xts) \/ IsNone(cb.Yts)
                       THEN "training" ELSE "validation"
            alpha == _params_to_original_space(beta, cb.precond)
        IN  IF ~IsNone(cb.Xts) /\ ~IsNone(cb.Yts)
            THEN LET pred == _predict(cb.Xts[1], cb.ny_points, alpha)
                     err == error_fn(cb.Yts[1], pred)
                 IN  CbackResult("",
                        [appended EXCEPT !.alpha_ = Some(alpha), !.val_errors_ =
                            Some(Append(@[1], [label |-> err_str, err |-> err]))],
                        cb, beta)
            ELSE IF IsNone(cb.X) \/ IsNone(cb.Y)
            THEN CbackResult("AssertionError", appended, cb, beta)
            ELSE LET pred == _predict(cb.X[1], cb.ny_points, alpha)
                     err == error_fn(cb.Y[1], pred)
                 IN  CbackResult("",
                        [appended EXCEPT !.alpha_ = Some(alpha), !.val_errors_ =
                            Some(Append(@[1], [label |-> err_str, err |-> err]))],
                        cb, beta)

\* val_cback appending train_time without the preparation time.
val_cback_train_time_only(obj, cb, it, beta, train_time) ==
    IF IsNone(obj.error_fn) \/ IsNone(obj.fit_times_) \/ IsNone(obj.val_errors_)
    THEN CbackResult("AssertionError", obj, cb, beta)
    ELSE IF Len(obj.fit_times_[1]) = 0
    THEN CbackResult("IndexError", obj, cb, beta)
    ELSE
    LET appended == [obj EXCEPT !.fit_times_ =
                        Some(Append(@[1], train_time))]
    IN  IF IsNone(obj.error_every)
        THEN CbackResult("TypeError", appended, cb, beta)
        ELSE IF obj.error_every[1] = 0
        THEN CbackResult("ZeroDivisionError", appended, cb, beta)
        ELSE IF it % obj.error_every[1] # 0
        THEN CbackResult("", appended, cb, beta)
        ELSE
        LET err_str == IF IsNone(cb.Xts) \/ IsNone(cb.Yts)
                       THEN "training" ELSE "validation"
            alpha == _params_to_original_space(beta, cb.precond)
        IN  IF ~IsNone(cb.Xts) /\ ~IsNone(cb.Yts)
            THEN LET pred == _predict(cb.Xts[1], cb.ny_points, alpha)
                     err == error_fn(cb.Yts[1], pred)
                 IN  CbackResult("",
                        [appended EXCEPT !.val_errors_ =
                            Some(Append(@[1], [label |-> err_str, err |-> err]))],
                        cb, beta)
            ELSE IF IsNone(cb.X) \/ IsNone(cb.Y)
            THEN CbackResult("AssertionError", appended, cb, beta)
            ELSE LET pred == _predict(cb.X[1], cb.ny_points, alpha)
                     err == error_fn(cb.Y[1], pred)
                 IN  CbackResult("",
                        [appended EXCEPT !.val_errors_ =
                            Some(Append(@[1], [label |-> err_str, err |-> err]))],
                        cb, beta)

\* The closure val_cback(it, beta, train_time) of _get_callback_fn; cb holds
\* the captured X, Y, Xts, Yts, ny_points and precond.
val_cback(obj, cb, it, beta, train_time) ==
    IF IsNone(obj.error_fn) \/ IsNone(obj.fit_times_) \/ IsNone(obj.val_errors_)
    THEN CbackResult("AssertionError", obj, cb, beta)
    ELSE IF Len(obj.fit_times_[1]) = 0
    THEN CbackResult("IndexError", obj, cb, beta)
    ELSE
    LET appended == [obj EXCEPT !.fit_times_ =
                        Some(Append(@[1], @[1][1] + train_time))]
    IN  IF IsNone(obj.error_every)
        THEN CbackResult("TypeError", appended, cb, beta)
        ELSE IF obj.error_every[1] = 0
        THEN CbackResult("ZeroDivisionError", appended, cb, beta)
        ELSE IF it % obj.error_every[1] # 0
        THEN CbackResult("", appended, cb, beta)
        ELSE
        LET err_str == IF IsNone(cb.Xts) \/ IsNone(cb.Yts)
                       THEN "training" ELSE "validation"
            alpha == _params_to_original_space(beta, cb.precond)
        IN  IF ~IsNone(cb.Xts) /\ ~IsNone(cb.Yts)
            THEN LET pred == _predict(cb.Xts[1], cb.ny_points, alpha)
                     err == error_fn(cb.Yts[1], pred)
                 IN  CbackResult("",
                        [appended EXCEPT !.val_errors_ =
                            Some(Append(@[1], [label |-> err_str, err |-> err]))],
                        cb, beta)
            ELSE IF IsNone(cb.X) \/ IsNone(cb.Y)
            THEN CbackResult("AssertionError", appended, cb, beta)
            ELSE LET pred == _predict(cb.X[1], cb.ny_points, alpha)
                     err == error_fn(cb.Y[1], pred)
                 IN  CbackResult("",
                        [appended EXCEPT !.val_errors_ =
                            Some(Append(@[1], [label |-> err_str, err |-> err]))],
                        cb, beta)

\* _check_predict_inputs letting an untrained estimator through.
_check_predict_inputs_unchecked(obj, X, use_keops) ==
    IF use_keops THEN Return(to_c_contig(Some(X))[1]) ELSE Return(X)

\* FalkonBase._check_predict_inputs; use_keops is the answer of
\* should_use_keops(X, self.ny_points_, options).
_check_predict_inputs(obj, X, use_keops) ==
    IF IsNone(obj.alpha_) \/ IsNone(obj.ny_points_) THEN Raise("RuntimeError")
    ELSE IF use_keops THEN Return(to_c_contig(Some(X))[1])
    ELSE Return(X)

\* FalkonBase.predict: the exception raised, or the arguments self._predict
\* is called with.
predict(obj, X, use_keops) ==
    LET checked == _check_predict_inputs(obj, X, use_keops)
    IN  IF checked.exc # "" THEN [exc |-> checked.exc, called |-> None]
        ELSE [exc |-> "",
              called |-> Some([X |-> checked.ret[1],
                               ny_points |-> obj.ny_points_,
                               alpha |-> obj.alpha_])]

\* A call of _reset_state outside a fit.
ResetState ==
    /\ pc = "idle"
    /\ self' = _reset_state(self)
    /\ exc' = ""
    /\ predict_out' = NoPredict
    /\ UNCHANGED <<pc, ctor, fit, knmVars, cfiVars, kVars>>

\* fit(X, Y, Xts, Yts) up to the CG loop: the state is reset, the centers
\* selected (more centers than rows is an error), the preconditioner built,
\* the preparation time recorded as fit_times_[0], and the callback made when
\* error_fn and error_every are set.
FitPrepare ==
    /\ pc = "idle"
    /\ \E Xts \in {None, Some("Xts")}, Yts \in {None, Some("Yts")},
          prep \in PrepTimes :
        LET reset == _reset_state(self)
            selector == self.center_selection[1]
        IN  IF selector.num_centers > NRows
            THEN /\ self' = reset /\ exc' = "ValueError"
                 /\ UNCHANGED <<pc, fit>>
            ELSE
            LET sel == select(selector, self.random_state_[1], NRows)
                precond == Preconditioner(sel.centers)
                timed == [reset EXCEPT !.random_state_ = Some(sel.state),
                                       !.fit_times_ = Some(Append(@[1], prep))]
                cback == IF ~IsNone(self.error_fn) /\ ~IsNone(self.error_every)
                         THEN _get_callback_fn(timed, Some("X"), Some("Y"),
                                               Xts, Yts, sel.centers,
                                               precond).ret
                         ELSE None
            IN  /\ self' = timed
                /\ fit' = [X |-> Some("X"), Y |-> Some("Y"),
                           Xts |-> Xts, Yts |-> Yts, ny_points |-> sel.centers,
                           precond |-> precond, beta |-> 0, it |-> 0,
                           train_time |-> 0, cback |-> cback]
                /\ exc' = ""
                /\ pc' = "fitting"
    /\ predict_out' = NoPredict
    /\ UNCHANGED <<ctor, knmVars, cfiVars, kVars>>

\* One CG iteration: a new iterate, more training time; the callback, if
\* any, is called next.
CgStep ==
    /\ pc = "fitting"
    /\ fit.it < MaxIter
    /\ \E dt \in StepTimes :
        fit' = [fit EXCEPT !.it = @ + 1, !.beta = @ + 1,
                           !.train_time = @ + dt]
    /\ pc' = IF IsNone(fit.cback) THEN "fitting" ELSE "callback"
    /\ UNCHANGED <<ctor, self, exc, predict_out, knmVars, cfiVars, kVars>>

\* The CG loop calls val_cback(it, beta, train_time); an exception ends fit.
ValCback ==
    /\ pc = "callback"
    /\ LET r == val_cback(self, fit.cback[1], fit.it, fit.beta, fit.train_time)
       IN  /\ self' = r.self
           /\ fit' = [fit EXCEPT !.beta = r.beta, !.ny_points = r.ny_points,
                                 !.precond = r.precond]
           /\ exc' = r.exc
           /\ pc' = IF r.exc = "" THEN "fitting" ELSE "idle"
    /\ UNCHANGED <<ctor, predict_out, knmVars, cfiVars, kVars>>

\* The end of fit: the final iterate is mapped to the original space and
\* stored with the centers.
FitComplete ==
    /\ pc = "fitting"
    /\ fit.it >= 1
    /\ self' = [self EXCEPT
                    !.alpha_ = Some(_params_to_original_space(fit.beta,
                                                              fit.precond)),
                    !.ny_points_ = Some(fit.ny_points)]
    /\ pc' = "idle"
    /\ fit' = NoFit
    /\ UNCHANGED <<ctor, exc, predict_out, knmVars, cfiVars, kVars>>

\* predict(X) on an idle estimator.
Predict ==
    /\ pc = "idle"
    /\ \E order \in {"C", "F"}, use_keops \in BOOLEAN :
        LET X == [shape |-> <<1, 1>>, dtype |-> "float64", order |-> order]
            r == predict(self, X, use_keops)
        IN  /\ predict_out' = r
            /\ exc' = r.exc
    /\ UNCHANGED <<pc, ctor, self, fit, knmVars, cfiVars, kVars>>

\* C4: predict reaches _predict only when alpha_ and ny_points_ are both
\* set; when either is None it raises the not-fitted RuntimeError and leaves
\* alpha_, ny_points_, fit_times_ and val_errors_ as they were.
C4_PredictOnlyWhenFitted ==
    [][predict_out' # NoPredict =>
        /\ ~IsNone(predict_out'.called)
           => (~IsNone(self.alpha_) /\ ~IsNone(self.ny_points_))
        /\ (IsNone(self.alpha_) \/ IsNone(self.ny_points_))
           => /\ predict_out'.exc = "RuntimeError"
              /\ IsNone(predict_out'.called)
              /\ self'.alpha_ = self.alpha_
              /\ self'.ny_points_ = self.ny_points_
              /\ self'.fit_times_ = self.fit_times_
              /\ self'.val_errors_ = self.val_errors_]_vars

\* C4's case: predict refused after a _reset_state.
C4_Witness ==
    /\ pc = "idle"
    /\ predict_out.exc = "RuntimeError"
    /\ IsNone(predict_out.called)
    /\ IsNone(self.alpha_)
    /\ self.fit_times_ = Some(<<>>)

\* The centers the first fit of a freshly constructed estimator with the
\* given seed and M selects from the training set.
FreshCenters(seed, M) ==
    LET gen == CHOOSE g \in check_random_generator(Some(seed)) : TRUE
    IN  select(UniformSelector(M), gen, NRows).centers

\* C7: with a seed and the uniform strategy, every fit on the training set,
\* the first of a fresh estimator or a refit of the same one, selects the
\* same centers.
C7_SameCentersEveryFit ==
    (/\ pc \in {"fitting", "callback"}
     /\ ~IsNone(self.seed)
     /\ self.center_selection[1].type = "UniformSelector")
    => fit.ny_points = FreshCenters(self.seed[1], self.M[1])

\* C9: a call of val_cback leaves the iterate, the preconditioner, the
\* centers and every field of the estimator but fit_times_ and val_errors_
\* unchanged.
C9_CallbackReadOnly ==
    [][pc = "callback" =>
        /\ fit'.beta = fit.beta
        /\ fit'.precond = fit.precond
        /\ fit'.ny_points = fit.ny_points
        /\ self'.alpha_ = self.alpha_
        /\ self'.ny_points_ = self.ny_points_
        /\ self' = [self EXCEPT !.fit_times_ = self'.fit_times_,
                                !.val_errors_ = self'.val_errors_]]_vars

\* C9's case: a fit under way whose callback has run on reporting and on
\* non-reporting iterations.
C9_Witness ==
    /\ pc = "fitting"
    /\ ~IsNone(fit.cback)
    /\ Len(self.val_errors_[1]) >= 1
    /\ Len(self.fit_times_[1]) >= Len(self.val_errors_[1]) + 2

\* C10: each call of val_cback appends fit_times_[0] + train_time to
\* fit_times_, and one entry to val_errors_ exactly when it % error_every
\* = 0; after the calls for iterations 1..k, len(fit_times_) = k + 1 and
\* len(val_errors_) = k div error_every <= len(fit_times_) - 1.
C10_CallbackBookkeeping ==
    [][pc = "callback" =>
        LET ft == self.fit_times_[1]
            ve == self.val_errors_[1]
            ft2 == self'.fit_times_[1]
            ve2 == self'.val_errors_[1]
            every == self.error_every[1]
        IN  /\ ft2 = Append(ft, ft[1] + fit.train_time)
            /\ IF fit.it % every = 0
               THEN Len(ve2) = Len(ve) + 1 /\ SubSeq(ve2, 1, Len(ve)) = ve
               ELSE ve2 = ve
            /\ Len(ft2) = fit.it + 1
            /\ Len(ve2) = fit.it \div every
            /\ Len(ve2) <= Len(ft2) - 1]_vars

\* C10's case: three iterations reported every second one.
C10_Witness ==
    /\ pc = "fitting"
    /\ fit.it = 3
    /\ self.error_every = Some(2)
    /\ Len(self.fit_times_[1]) = 4
    /\ Len(self.val_errors_[1]) = 1

(***************************************************************************)
(* _get_callback_fn on its own                                             *)
(***************************************************************************)
OptNamed(name) == {None, Some(name)}

\* The estimators _get_callback_fn may be called on: a fit prepared
\* (fit_times_ holds the preparation time), error_fn set or not, error_every
\* set.
CbackSelves ==
    {[NoSelf EXCEPT !.error_fn = fn, !.error_every = Some(every),
                    !.fit_times_ = Some(<<prep>>), !.val_errors_ = Some(<<>>)] :
        fn \in OptErrorFn, every \in 1..MaxErrorEvery, prep \in PrepTimes}

\* Every presence of X, Y, Xts and Yts, with one center selected.
CbackFits ==
    {[NoFit EXCEPT !.X = x, !.Y = y, !.Xts = xts, !.Yts = yts,
                   !.ny_points = <<0>>, !.precond = Preconditioner(<<0>>)] :
        x \in OptNamed("X"), y \in OptNamed("Y"),
        xts \in OptNamed("Xts"), yts \in OptNamed("Yts")}

\* The call _get_callback_fn(X, Y, Xts, Yts, ny_points, precond): a failed
\* assertion ends the fit, otherwise the CG loop starts with the callback.
GetCallbackFn ==
    /\ pc = "get_callback"
    /\ LET r == _get_callback_fn(self, fit.X, fit.Y, fit.Xts, fit.Yts,
                                 fit.ny_points, fit.precond)
       IN  /\ fit' = [fit EXCEPT !.cback = r.ret]
           /\ exc' = r.exc
           /\ pc' = IF r.exc = "" THEN "fitting" ELSE "idle"
    /\ UNCHANGED <<ctor, self, predict_out, knmVars, cfiVars, kVars>>

\* C11: whenever _get_callback_fn's assertions pass, no call of the returned
\* callback fails its assertion, and every error it records was computed on
\* (Xts, Yts) labelled 'validation' when both are present and otherwise on
\* (X, Y), both present, labelled 'training'.
C11_CallbackPreconditionSuffices ==
    ~IsNone(fit.cback) =>
        /\ exc # "AssertionError"
        /\ \A i \in 1..Len(self.val_errors_[1]) :
            LET e == self.val_errors_[1][i]
            IN  IF ~IsNone(fit.Xts) /\ ~IsNone(fit.Yts)
                THEN /\ e.label = "validation"
                     /\ e.err.targets = "Yts" /\ e.err.pred.X = "Xts"
                ELSE /\ ~IsNone(fit.X) /\ ~IsNone(fit.Y)
                     /\ e.label = "training"
                     /\ e.err.targets = "Y" /\ e.err.pred.X = "X"

(***************************************************************************)
(* The specifications                                                      *)
(***************************************************************************)
InitKnm == KnmInit /\ CfiOff /\ KernOff /\ EstOff
NextKnm == CanStoreKnm
SpecKnm == InitKnm /\ [][NextKnm]_vars

InitFitIn == CfiInit /\ KnmOff /\ KernOff /\ EstOff
NextFitIn == CheckFitInputs
SpecFitIn == InitFitIn /\ [][NextFitIn]_vars

InitKernel == KernInit /\ KnmOff /\ CfiOff /\ EstOff
NextKernel == Mmv \/ DmmvV \/ DmmvW \/ DmmvVW
SpecKernel == InitKernel /\ [][NextKernel]_vars

InitCtor == pc = "new" /\ ctor \in CtorArgs /\ EstRest /\ KnmOff /\ CfiOff /\ KernOff
NextCtor == Construct
SpecCtor == InitCtor /\ [][NextCtor]_vars

InitCback ==
    /\ pc = "get_callback" /\ ctor = None
    /\ self \in CbackSelves /\ fit \in CbackFits
    /\ exc = "" /\ predict_out = NoPredict
    /\ KnmOff /\ CfiOff /\ KernOff
NextCback == GetCallbackFn \/ CgStep \/ ValCback
SpecCback == InitCback /\ [][NextCback]_vars

Init == pc = "new" /\ ctor \in LifeCtorArgs /\ EstRest /\ KnmOff /\ CfiOff /\ KernOff
Next ==
    \/ Construct
    \/ ResetState
    \/ FitPrepare
    \/ CgStep
    \/ ValCback
    \/ FitComplete
    \/ Predict
Spec == Init /\ [][Next]_vars
====
